---- MODULE Spec2Model ----
(***************************************************************************)
(* Model of generator/file.go of protoc-gen-struct-transformer:            *)
(*   CollectAllMessages  builds the MessageOptionList catalog,             *)
(*   ProcessFile         produces one generated file (path, content, err), *)
(*   execTemplate        renders the forward/reverse pair of each record,  *)
(*   prefixFields        qualifies the conversion expressions.             *)
(*                                                                         *)
(* Strings are sequences of tokens, so that concatenation, prefixing and   *)
(* replacement are computed and not assumed.  Descriptors are the ones     *)
(* protoc hands to a plugin: message, oneof and package names are set (the *)
(* code dereferences them unconditionally), a field name may be nil (the   *)
(* code tests for it), every oneof group has at least one member field and *)
(* fully qualified message names are unique within one request.            *)
(***************************************************************************)
EXTENDS Integers, Sequences, FiniteSets, TLC

VARIABLES
    req,        \* plugin.CodeGeneratorRequest.ProtoFile given to CollectAllMessages
    mol,        \* the MessageOptionList returned by CollectAllMessages
    cerr,       \* the error returned by CollectAllMessages
    cpc,        \* position of CollectAllMessages: "call" or "returned"
    f,          \* the *descriptor.FileDescriptorProto given to ProcessFile
    args,       \* packageName, helperPackageName, debug, usePackageInPath
    pc,         \* position of ProcessFile
    w,          \* the output stream (WriteStringer), a sequence of items
    data,       \* []*Data
    i,          \* index of the message ProcessFile's loop is at
    j,          \* index of the record execTemplate's loop is at
    swaps,      \* how many times d.swap() ran on each record
    outcome,    \* what processMessage returned for each message so far
    ret         \* the triple ProcessFile returned

vars == <<req, mol, cerr, cpc, f, args, pc, w, data, i, j, swaps, outcome, ret>>

collectVars == <<req, mol, cerr, cpc>>
fileVars == <<f, args, pc, w, data, i, j, swaps, outcome, ret>>

\* A nil pointer / absent option / nil error.
Nil == "<nil>"

-----------------------------------------------------------------------------
(* Bounds of the enumerated inputs *)

MaxFieldCount == 3      \* fields per message in a request
MaxOneofs == 2          \* oneof groups per message
MaxFiles == 2           \* files per request
MaxMsgs == 2            \* messages per file
MaxFields == 2          \* field mappings processMessage returns

-----------------------------------------------------------------------------
(* Descriptors *)

FieldNames == {"int64_value", "string_value", "id", Nil}

FirstOneofNames == {"value", "kind"}

OtherOneofNames == <<"second", "third", "fourth", "fifth">>

\* The oneof declarations of a message with k groups.
OneofDecls(k) ==
    IF k = 0 THEN {<<>>}
    ELSE {[g \in 1..k |-> IF g = 1 THEN n ELSE OtherOneofNames[g - 1]] : n \in FirstOneofNames}

\* OneofIndex 0 is "not in a oneof"; every one of the k groups has a member.
ValidOneofIndex(ix, k) == \A g \in 1..k : \E x \in DOMAIN ix : ix[x] = g

\* A message of n fields named nm, in the groups ix, with the oneofs od.
Message(name, nm, ix, od, gs) ==
    [Name |-> name,
     Field |-> [x \in DOMAIN nm |-> [Name |-> nm[x], OneofIndex |-> ix[x]]],
     OneofDecl |-> od,
     GoStruct |-> gs]

GoStructOptions == {Nil, "FooModel"}

Packages == {"pkg", "other"}

MsgNames == <<"Foo", "Bar", "Baz", "Qux">>

\* A message without fields, as the k-th message of its file.
PlainMessages(k) ==
    {[Name |-> MsgNames[k], Field |-> <<>>, OneofDecl |-> <<>>, GoStruct |-> gs] :
        gs \in GoStructOptions}

PlainFiles ==
    UNION {{[Package |-> p, MessageType |-> ms] :
              p \in Packages,
              ms \in {s \in [1..n -> UNION {PlainMessages(k) : k \in 1..n}] :
                         \A k \in 1..n : s[k].Name = MsgNames[k]}}
           : n \in 0..MaxMsgs}

\* Key with the package left out.
Key_NoPackage(pkg, name) == <<name>>

\* Line 93: fmt.Sprintf("%s.%s", *f.Package, *m.Name)
Key(pkg, name) == <<pkg, ".", name>>

\* The (file, message) positions of a request, and their keys.
Positions(r) == UNION {{<<a, b>> : b \in DOMAIN r[a].MessageType} : a \in DOMAIN r}

KeyAt(r, p) == Key(r[p[1]].Package, r[p[1]].MessageType[p[2]].Name)

UniqueKeys(r) ==
    \A p, q \in Positions(r) : KeyAt(r, p) = KeyAt(r, q) => p = q

\* A request of one file holding one message of any shape within the bounds.
IsRichRequest(r) ==
    \E n \in 0..MaxFieldCount, k \in 0..MaxOneofs :
        \E nm \in [1..n -> FieldNames], ix \in [1..n -> 0..k],
           od \in OneofDecls(k), gs \in GoStructOptions :
            /\ ValidOneofIndex(ix, k)
            /\ r = <<[Package |-> "pkg",
                      MessageType |-> <<Message("Foo", nm, ix, od, gs)>>]>>

\* A request of several files of several plain messages.
IsPlainRequest(r) ==
    \E n \in 1..MaxFiles :
        \E fs \in [1..n -> PlainFiles] :
            /\ UniqueKeys(fs)
            /\ r = fs

-----------------------------------------------------------------------------
(* CollectAllMessages *)

\* extractStructNameOption(m): the go_struct option, or "" with an error.
extractStructNameOption(m) ==
    IF m.GoStruct = Nil THEN [name |-> "", err |-> "no option"]
    ELSE [name |-> m.GoStruct, err |-> Nil]

hasInt64Value(m) == \E x \in DOMAIN m.Field : m.Field[x].Name = "int64_value"

hasStringValue(m) == \E x \in DOMAIN m.Field : m.Field[x].Name = "string_value"

\* int64ToStringOneOf without the test of the field count.
int64ToStringOneOf_NoCount(m) == hasInt64Value(m) /\ hasStringValue(m)

\* Line 86.
int64ToStringOneOf(m) == Len(m.Field) = 2 /\ hasInt64Value(m) /\ hasStringValue(m)

\* The messageOption built for one message (the body of the inner loop).
messageOption(m) ==
    [targetName |-> extractStructNameOption(m).name,
     oneofDecl |->
        IF Len(m.OneofDecl) > 0 /\ int64ToStringOneOf(m) /\ Len(m.OneofDecl) = 1
        THEN m.OneofDecl[1]
        ELSE ""]

\* mol after the messages ms of a file of package pkg were added to acc.
RECURSIVE CollectMessages(_, _, _)
CollectMessages(acc, pkg, ms) ==
    IF ms = <<>> THEN acc
    ELSE LET m == Head(ms)
             k == Key(pkg, m.Name)
             so == messageOption(m)
         IN  CollectMessages([x \in DOMAIN acc \cup {k} |-> IF x = k THEN so ELSE acc[x]],
                             pkg, Tail(ms))

RECURSIVE CollectFiles(_, _)
CollectFiles(acc, fs) ==
    IF fs = <<>> THEN acc
    ELSE CollectFiles(CollectMessages(acc, Head(fs).Package, Head(fs).MessageType), Tail(fs))

EmptyMol == [x \in {} |-> [targetName |-> "", oneofDecl |-> ""]]

CollectAllMessages(r) == [mol |-> CollectFiles(EmptyMol, r), err |-> Nil]

-----------------------------------------------------------------------------
(* Strings and paths.  A string is a sequence of tokens; a path is a       *)
(* sequence of elements, each element a string.                            *)

\* strings.Replace(s, ".proto", "_transformer.go", -1) on one element.
ReplaceProto(e) == [x \in DOMAIN e |-> IF e[x] = ".proto" THEN "_transformer.go" ELSE e[x]]

\* filepath.Split: the directory part and the last element.
SplitDir(p) == SubSeq(p, 1, Len(p) - 1)

SplitFile(p) == p[Len(p)]

\* filepath.Join drops empty elements and joins the rest.
RECURSIVE Join(_)
Join(parts) ==
    IF parts = <<>> THEN <<>>
    ELSE Head(parts) \o Join(Tail(parts))

\* An element list for one string argument of Join: none when it is empty.
Elem(s) == IF s = <<>> THEN <<>> ELSE <<s>>

\* Lines 179-185: the destination path.
absPath(name, packageName, usePackageInPath) ==
    LET dir == SplitDir(name)
        filename == SplitFile(name)
        pn == IF usePackageInPath THEN packageName ELSE <<>>
        joined == Join(<<dir, Elem(pn), Elem(filename), <<<<"__">>>>, name>>)
    IN  [x \in DOMAIN joined |-> ReplaceProto(joined[x])]

-----------------------------------------------------------------------------
(* Field mappings and records *)

FNames == <<"ID", "Name", "Kind", "Tag">>

\* The k-th field mapping as processMessage returns it.
Field(k, up) ==
    [Name |-> FNames[k],
     ProtoToGoType |-> <<"To", FNames[k]>>,
     GoToProtoType |-> <<"From", FNames[k]>>,
     UsePackage |-> up]

FieldSlices ==
    UNION {{[k \in 1..n |-> Field(k, ups[k])] : ups \in [1..n -> BOOLEAN]} : n \in 0..MaxFields}

\* prefixFields that qualifies every field, marked or not.
prefixFields_All(fields, prefix) ==
    IF prefix = "" THEN fields
    ELSE [k \in DOMAIN fields |->
            [fields[k] EXCEPT
                !.ProtoToGoType = <<prefix, ".">> \o fields[k].ProtoToGoType,
                !.GoToProtoType = <<prefix, ".">> \o fields[k].GoToProtoType]]

\* prefixFields(fields, prefix)
prefixFields(fields, prefix) ==
    IF prefix = "" THEN fields
    ELSE [k \in DOMAIN fields |->
            IF ~fields[k].UsePackage THEN fields[k]
            ELSE [fields[k] EXCEPT
                    !.ProtoToGoType = <<prefix, ".">> \o fields[k].ProtoToGoType,
                    !.GoToProtoType = <<prefix, ".">> \o fields[k].GoToProtoType]]

\* Data.swap(): source and destination roles exchanged, Fields untouched.
swap(d) ==
    [d EXCEPT !.Src = d.Dst, !.Dst = d.Src,
              !.SrcPref = d.DstPref, !.DstPref = d.SrcPref,
              !.SrcFn = d.DstFn, !.DstFn = d.SrcFn,
              !.SrcPointer = d.DstPointer, !.DstPointer = d.SrcPointer]

\* Lines 159-168: the record appended for message m.
NewData(m, sno, protoPackage, repoPackage, fields) ==
    [Src |-> m.Name, SrcPref |-> protoPackage, SrcFn |-> "Pb", SrcPointer |-> "*",
     Dst |-> sno, DstPref |-> repoPackage, DstFn |-> sno, DstPointer |-> "",
     Fields |-> fields]

NoData == NewData([Name |-> ""], "", "", "", <<>>)

\* An item of the output stream: what was written, for which record (rec) or
\* message (msg), in which Execute call of the record (pass), from which
\* state of the record (d), and whether the write ran to its end.
Item(kind, rec, msg, pass, d, complete) ==
    [kind |-> kind, rec |-> rec, msg |-> msg, pass |-> pass, d |-> d, complete |-> complete]

-----------------------------------------------------------------------------
(* ProcessFile: inputs *)

StructNames == <<"FooModel", "BarModel", "BazModel", "QuxModel">>

\* The file's path and options: a.proto without a models path, and
\* dir/a.proto with a models path, the repo alias and no protobuf alias.
FileHeads ==
    {[Name |-> <<<<"a", ".proto">>>>,
      Options |-> [GoModelsFilePath |-> Nil, GoRepoPackage |-> Nil,
                   GoProtobufPackage |-> Nil]],
     [Name |-> <<<<"dir">>, <<"a", ".proto">>>>,
      Options |-> [GoModelsFilePath |-> "models.go", GoRepoPackage |-> "models",
                   GoProtobufPackage |-> Nil]]}

FileMessages ==
    UNION {[1..n -> {"annotated", "bare"}] : n \in 0..MaxMsgs}

FileDescriptors ==
    {[Name |-> h.Name, Package |-> "pkg", Options |-> h.Options,
      MessageType |-> [k \in DOMAIN ms |->
                         [Name |-> MsgNames[k],
                          GoStruct |-> IF ms[k] = "annotated" THEN StructNames[k] ELSE Nil]]] :
        h \in FileHeads, ms \in FileMessages}

\* Every pair of values of the three arguments occurs together once.
Arguments ==
    {[packageName |-> <<"transform">>, helperPackageName |-> "",
      debug |-> FALSE, usePackageInPath |-> FALSE],
     [packageName |-> <<"transform">>, helperPackageName |-> "helperpkg",
      debug |-> FALSE, usePackageInPath |-> TRUE],
     [packageName |-> <<"transform">>, helperPackageName |-> "helperpkg",
      debug |-> TRUE, usePackageInPath |-> FALSE],
     [packageName |-> <<"transform">>, helperPackageName |-> "",
      debug |-> TRUE, usePackageInPath |-> TRUE]}

-----------------------------------------------------------------------------
(* ProcessFile: the collaborators it calls *)

\* getStringOption(m, opt): the option's value, or an error when it is absent.
getStringOption(o) == IF o = Nil THEN [value |-> "", err |-> "option not found"]
                      ELSE [value |-> o, err |-> Nil]

\* modelsPath that goes on with an empty path when the option is missing.
modelsPath_IgnoreMissing(opts, absOk) ==
    IF ~absOk
    THEN [path |-> "", err |-> "AbsError"]
    ELSE [path |-> getStringOption(opts.GoModelsFilePath).value, err |-> Nil]

\* modelsPath(f.Options); absOk tells whether filepath.Abs succeeds.
modelsPath(opts, absOk) ==
    IF getStringOption(opts.GoModelsFilePath).err # Nil
    THEN [path |-> "", err |-> "ErrFileSkipped"]
    ELSE IF ~absOk
    THEN [path |-> "", err |-> "AbsError"]
    ELSE [path |-> getStringOption(opts.GoModelsFilePath).value, err |-> Nil]

\* What processMessage may return for message m: field mappings and the
\* struct name, a loggable error (always so without the go_struct option),
\* or any other error.
processMessage(m) ==
    {[fields |-> <<>>, sno |-> "", err |-> "loggable"]}
    \cup
    (IF m.GoStruct = Nil THEN {}
     ELSE {[fields |-> fl, sno |-> m.GoStruct, err |-> Nil] : fl \in FieldSlices}
          \cup {[fields |-> <<>>, sno |-> "", err |-> "fatal"]})

\* No error is taken for a loggable one.
IsLoggable_Never(e) == FALSE

\* err.(loggableError)
IsLoggable(e) == e = "loggable"

\* An error return that hands back what was written so far.
ErrReturn_Partial(e, out) == [path |-> <<>>, content |-> out, err |-> e]

\* return "", "", err
ErrReturn(e, out) == [path |-> <<>>, content |-> <<>>, err |-> e]

NotReturned == [path |-> <<>>, content |-> <<>>, err |-> Nil]

\* fileHeader(...) followed by the debug dump of line 131.
fileHeader(debug) ==
    <<Item("header", 0, 0, 0, NoData, TRUE)>>
    \o (IF debug THEN <<Item("debug", 0, 0, 0, NoData, TRUE)>> ELSE <<>>)

\* execTemplate returning after the first record's pair.
AfterRecord_Early(k, n) == IF k > n \/ k > 1 THEN "oneof" ELSE "forward"

\* Where execTemplate is when its loop reaches record k of n: in the loop
\* body, or returned to ProcessFile, which calls processOneofFields next.
AfterRecord(k, n) == IF k > n THEN "oneof" ELSE "forward"

\* Where ProcessFile is when its loop reaches message k of n, with nrec
\* records appended: in the loop body, or in execTemplate(w, data).
AfterMessage(k, n, nrec) == IF k > n THEN AfterRecord(1, nrec) ELSE "messages"

-----------------------------------------------------------------------------
(* ProcessFile: the steps *)

Return(r) == /\ ret' = r
             /\ pc' = "done"

\* Lines 118-121.
ModelsPathStep ==
    /\ pc = "start"
    /\ \E absOk \in BOOLEAN :
         LET r == modelsPath(f.Options, absOk)
         IN  IF r.err # Nil
             THEN Return(ErrReturn(r.err, w))
             ELSE /\ pc' = "parse"
                  /\ ret' = ret
    /\ UNCHANGED <<f, args, w, data, i, j, swaps, outcome>>
    /\ UNCHANGED collectVars

\* Lines 123-142: source.Parse, the header, the package aliases.
ParseStep ==
    /\ pc = "parse"
    /\ \E parseOk \in BOOLEAN :
         IF ~parseOk
         THEN /\ Return(ErrReturn("ParseError", w))
              /\ UNCHANGED <<w, i>>
         ELSE /\ w' = fileHeader(args.debug)
              /\ i' = 1
              /\ pc' = AfterMessage(1, Len(f.MessageType), 0)
              /\ ret' = ret
    /\ UNCHANGED <<f, args, data, j, swaps, outcome>>
    /\ UNCHANGED collectVars

repoPackage == IF getStringOption(f.Options.GoRepoPackage).err # Nil THEN "repo1"
               ELSE getStringOption(f.Options.GoRepoPackage).value

protoPackage == IF getStringOption(f.Options.GoProtobufPackage).err # Nil THEN "pb1"
                ELSE getStringOption(f.Options.GoProtobufPackage).value

\* Lines 146-169: one turn of the loop over f.MessageType.
MessageStep ==
    /\ pc = "messages"
    /\ i <= Len(f.MessageType)
    /\ \E r \in processMessage(f.MessageType[i]) :
         /\ outcome' = Append(outcome, r)
         /\ IF r.err # Nil
            THEN IF IsLoggable(r.err)
                 THEN /\ w' = Append(w, Item("comment", 0, i, 0, NoData, TRUE))
                      /\ i' = i + 1
                      /\ pc' = AfterMessage(i + 1, Len(f.MessageType), Len(data))
                      /\ UNCHANGED <<data, swaps, ret>>
                 ELSE /\ Return(ErrReturn(r.err, w))
                      /\ UNCHANGED <<w, i, data, swaps>>
            ELSE /\ data' = Append(data,
                        NewData(f.MessageType[i], r.sno, protoPackage, repoPackage,
                                prefixFields(r.fields, args.helperPackageName)))
                 /\ swaps' = Append(swaps, 0)
                 /\ i' = i + 1
                 /\ pc' = AfterMessage(i + 1, Len(f.MessageType), Len(data'))
                 /\ UNCHANGED <<w, ret>>
    /\ UNCHANGED <<f, args, j>>
    /\ UNCHANGED collectVars

\* Lines 193-201: templateWithHelpers and the first Execute of record j.
ForwardStep ==
    /\ pc = "forward"
    /\ \E res \in {"ok", "template", "execute"} :
         CASE res = "ok" ->
                /\ w' = Append(w, Item("func", j, 0, 1, data[j], TRUE))
                /\ pc' = "swap"
                /\ ret' = ret
           [] res = "template" ->
                /\ Return(ErrReturn("TemplateError", w))
                /\ w' = w
           [] res = "execute" ->
                /\ w' = Append(w, Item("func", j, 0, 1, data[j], FALSE))
                /\ Return(ErrReturn("ExecuteError", w'))
    /\ UNCHANGED <<f, args, data, i, j, swaps, outcome>>
    /\ UNCHANGED collectVars

\* execTemplate without the call of d.swap().
SwapStep_NoSwap ==
    /\ pc = "swap"
    /\ pc' = "reverse"
    /\ UNCHANGED <<f, args, w, data, i, j, swaps, outcome, ret>>
    /\ UNCHANGED collectVars

\* Line 203: d.swap().
SwapStep ==
    /\ pc = "swap"
    /\ data' = [data EXCEPT ![j] = swap(@)]
    /\ swaps' = [swaps EXCEPT ![j] = @ + 1]
    /\ pc' = "reverse"
    /\ UNCHANGED <<f, args, w, i, j, outcome, ret>>
    /\ UNCHANGED collectVars

\* Lines 205-207: the second Execute of record j.
ReverseStep ==
    /\ pc = "reverse"
    /\ \E ok \in BOOLEAN :
         IF ok
         THEN /\ w' = Append(w, Item("func", j, 0, 2, data[j], TRUE))
              /\ j' = j + 1
              /\ pc' = AfterRecord(j + 1, Len(data))
              /\ ret' = ret
         ELSE /\ w' = Append(w, Item("func", j, 0, 2, data[j], FALSE))
              /\ Return(ErrReturn("ExecuteError", w'))
              /\ j' = j
    /\ UNCHANGED <<f, args, data, i, swaps, outcome>>
    /\ UNCHANGED collectVars

\* The items processOneofFields writes for the records in U, in list order.
RECURSIVE OneofItems(_, _)
OneofItems(k, U) ==
    IF k > Len(data) THEN <<>>
    ELSE (IF k \in U THEN <<Item("oneof", k, 0, 0, data[k], TRUE)>> ELSE <<>>)
         \o OneofItems(k + 1, U)

\* Lines 175-177: processOneofFields(w, data).
OneofStep ==
    /\ pc = "oneof"
    /\ \E U \in SUBSET (1..Len(data)), ok \in BOOLEAN :
         /\ w' = w \o OneofItems(1, U)
         /\ IF ok
            THEN /\ pc' = "path"
                 /\ ret' = ret
            ELSE Return(ErrReturn("OneofError", w'))
    /\ UNCHANGED <<f, args, data, i, j, swaps, outcome>>
    /\ UNCHANGED collectVars

\* Lines 179-187.
PathStep ==
    /\ pc = "path"
    /\ Return([path |-> absPath(f.Name, args.packageName, args.usePackageInPath),
               content |-> w, err |-> Nil])
    /\ UNCHANGED <<f, args, w, data, i, j, swaps, outcome>>
    /\ UNCHANGED collectVars

-----------------------------------------------------------------------------
(* CollectAllMessages: the call *)

CollectStep ==
    /\ cpc = "call"
    /\ mol' = CollectAllMessages(req).mol
    /\ cerr' = CollectAllMessages(req).err
    /\ cpc' = "returned"
    /\ req' = req
    /\ UNCHANGED fileVars

-----------------------------------------------------------------------------
(* Specifications *)

IdleFile ==
    /\ f = [Name |-> <<<<"a", ".proto">>>>, Package |-> "pkg",
            Options |-> [GoModelsFilePath |-> Nil, GoRepoPackage |-> Nil,
                         GoProtobufPackage |-> Nil],
            MessageType |-> <<>>]
    /\ args = [packageName |-> <<"transform">>, helperPackageName |-> "",
               debug |-> FALSE, usePackageInPath |-> FALSE]
    /\ pc = "idle"
    /\ w = <<>>
    /\ data = <<>>
    /\ i = 1
    /\ j = 1
    /\ swaps = <<>>
    /\ outcome = <<>>
    /\ ret = NotReturned

IdleCollect ==
    /\ req = <<>>
    /\ mol = EmptyMol
    /\ cerr = Nil
    /\ cpc = "idle"

\* ProcessFile on one file.
Init ==
    /\ f \in FileDescriptors
    /\ args \in Arguments
    /\ pc = "start"
    /\ w = <<>>
    /\ data = <<>>
    /\ i = 1
    /\ j = 1
    /\ swaps = <<>>
    /\ outcome = <<>>
    /\ ret = NotReturned
    /\ IdleCollect

Next ==
    \/ ModelsPathStep
    \/ ParseStep
    \/ MessageStep
    \/ ForwardStep
    \/ SwapStep
    \/ ReverseStep
    \/ OneofStep
    \/ PathStep

Spec == Init /\ [][Next]_vars

\* CollectAllMessages on one request.
InitCollect ==
    /\ \/ IsRichRequest(req)
       \/ IsPlainRequest(req)
    /\ mol = EmptyMol
    /\ cerr = Nil
    /\ cpc = "call"
    /\ IdleFile

NextCollect == CollectStep

SpecCollect == InitCollect /\ [][NextCollect]_vars

-----------------------------------------------------------------------------
(* Claims about CollectAllMessages (checked under SpecCollect) *)

MsgAt(r, p) == r[p[1]].MessageType[p[2]]

\* The catalog entry of the message at position p of the request.
EntryAt(r, p) == mol[<<r[p[1]].Package, ".", MsgAt(r, p).Name>>]

\* The shape the discriminator is recorded for: one oneof group, two fields,
\* named int64_value and string_value in either order.
IsInt64StringShape(m) ==
    /\ Len(m.OneofDecl) = 1
    /\ Len(m.Field) = 2
    /\ {m.Field[1].Name, m.Field[2].Name} = {"int64_value", "string_value"}

\* C1: for every top-level message the recorded oneofDecl is non-empty, and
\* then the name of the first oneof declaration, exactly when the message has
\* one oneof group and two fields named int64_value and string_value; in every
\* other case it is empty, and no error is raised.
C1_DiscriminatorIffShape ==
    cpc = "returned" =>
        /\ cerr = Nil
        /\ \A p \in Positions(req) :
             LET m == MsgAt(req, p)
             IN  /\ <<req[p[1]].Package, ".", m.Name>> \in DOMAIN mol
                 /\ (EntryAt(req, p).oneofDecl # "") <=> IsInt64StringShape(m)
                 /\ IsInt64StringShape(m) => EntryAt(req, p).oneofDecl = m.OneofDecl[1]
                 /\ ~IsInt64StringShape(m) => EntryAt(req, p).oneofDecl = ""

\* C1 witness: a message <string_value, int64_value> with the one oneof "kind"
\* was collected and "kind" recorded.
C1_Witness ==
    /\ cpc = "returned"
    /\ \E p \in Positions(req) :
         /\ MsgAt(req, p).OneofDecl = <<"kind">>
         /\ Len(MsgAt(req, p).Field) = 2
         /\ MsgAt(req, p).Field[1].Name = "string_value"
         /\ MsgAt(req, p).Field[2].Name = "int64_value"
         /\ EntryAt(req, p).oneofDecl = "kind"

C9_BothFieldsInTheGroup ==
    cpc = "returned" =>
        \A p \in Positions(req) :
            EntryAt(req, p).oneofDecl # "" =>
                /\ Len(MsgAt(req, p).OneofDecl) = 1
                /\ \A x \in DOMAIN MsgAt(req, p).Field :
                     MsgAt(req, p).Field[x].OneofIndex = 1

-----------------------------------------------------------------------------
(* Claims about ProcessFile (checked under Spec) *)

\* The positions in w of the pass-th Execute of record k.
FuncPos(k, pass) ==
    {x \in DOMAIN w : w[x].kind = "func" /\ w[x].rec = k /\ w[x].pass = pass}

KindPos(kind) == {x \in DOMAIN w : w[x].kind = kind}

\* The indexes of the first n messages for which processMessage succeeded.
RECURSIVE OkMsgs(_)
OkMsgs(n) ==
    IF n = 0 THEN <<>>
    ELSE OkMsgs(n - 1) \o (IF outcome[n].err = Nil THEN <<n>> ELSE <<>>)

Succeeded == pc = "done" /\ ret.err = Nil

\* b has the source/destination names and prefixes of a exchanged.
Mirrored(a, b) ==
    /\ b.Src = a.Dst /\ b.Dst = a.Src
    /\ b.SrcPref = a.DstPref /\ b.DstPref = a.SrcPref

\* C3: for every record, in list order, the forward function is rendered
\* first, then the record is swapped exactly once, then the reverse function
\* is rendered from the same record; the swap inverts names and prefixes and
\* leaves the field list as it was.
C3_ForwardSwapReverse ==
    LET ok == OkMsgs(Len(outcome))
    IN  /\ \A x \in DOMAIN w :
             w[x].kind = "func" =>
                LET k == w[x].rec
                IN  /\ k \in DOMAIN data
                    /\ w[x].pass = 1 =>
                         \* the forward render: before the swap, after the
                         \* pair of the record before it
                         /\ w[x].d.Src = f.MessageType[ok[k]].Name
                         /\ w[x].d.SrcPref = protoPackage
                         /\ w[x].d.DstPref = repoPackage
                         /\ w[x].d.Src # w[x].d.Dst
                         /\ x = Len(w) => swaps[k] = (IF pc = "reverse" THEN 1 ELSE 0)
                         /\ IF w[x - 1].kind = "func"
                            THEN w[x - 1].rec = k - 1 /\ w[x - 1].pass = 2 /\ w[x - 1].complete
                            ELSE k = 1
                    /\ w[x].pass = 2 =>
                         \* the reverse render: after the one swap, from the
                         \* record the forward render used
                         /\ swaps[k] = 1
                         /\ w[x - 1].kind = "func" /\ w[x - 1].rec = k
                         /\ w[x - 1].pass = 1 /\ w[x - 1].complete
                         /\ Mirrored(w[x - 1].d, w[x].d)
                         /\ w[x].d.Fields = w[x - 1].d.Fields
        /\ \A k \in DOMAIN data :
             /\ swaps[k] \in {0, 1}
             /\ swaps[k] = 1 => \E x \in DOMAIN w :
                  w[x].kind = "func" /\ w[x].rec = k /\ w[x].pass = 1 /\ w[x].complete
             /\ (pc \in {"oneof", "path"} \/ Succeeded) =>
                  /\ swaps[k] = 1
                  /\ \E y \in DOMAIN w :
                       w[y].kind = "func" /\ w[y].rec = k /\ w[y].pass = 2 /\ w[y].complete

\* C3 witness: a successful run over two records of two field mappings each.
C3_Witness ==
    /\ Succeeded
    /\ Len(data) = 2
    /\ \A k \in DOMAIN data : Len(data[k].Fields) = 2 /\ FuncPos(k, 2) # {}

\* C4: a non-nil error comes with an empty path and empty content; what is
\* returned never holds a forward function without its reverse function.
C4_NoPartialOutput ==
    pc = "done" =>
        /\ ret.err # Nil => ret.path = <<>> /\ ret.content = <<>>
        /\ \A x \in DOMAIN ret.content :
             (ret.content[x].kind = "func" /\ ret.content[x].pass = 1) =>
                /\ ret.content[x].complete
                /\ x + 1 \in DOMAIN ret.content
                /\ ret.content[x + 1].kind = "func"
                /\ ret.content[x + 1].rec = ret.content[x].rec
                /\ ret.content[x + 1].pass = 2
                /\ ret.content[x + 1].complete

\* C4 witness: the reverse render failed after the forward function was
\* written, and nothing was returned.
C4_Witness ==
    /\ pc = "done"
    /\ ret.err = "ExecuteError"
    /\ ret.content = <<>>
    /\ \E k \in DOMAIN data :
         /\ \E x \in FuncPos(k, 1) : w[x].complete
         /\ \E y \in FuncPos(k, 2) : ~w[y].complete

\* The schema message record r was built from.
RecordName(r) == IF swaps[r] = 0 THEN data[r].Src ELSE data[r].Dst

\* C5: a loggable error of processMessage puts a comment into the output,
\* adds no record, and the loop goes on with the next message; it is never
\* returned, the run can still succeed with a path and content, and the
\* records of the other messages keep the declaration order.
C5_LoggableIsSkipped ==
    LET ok == OkMsgs(Len(outcome))
    IN  /\ Len(data) = Len(ok)
        /\ \A r \in DOMAIN data : RecordName(r) = f.MessageType[ok[r]].Name
        /\ \A k \in DOMAIN outcome :
             outcome[k].err = "loggable" =>
                /\ Cardinality({x \in DOMAIN w : w[x].kind = "comment" /\ w[x].msg = k}) = 1
                /\ \A r \in DOMAIN data : RecordName(r) # f.MessageType[k].Name
                /\ \A x \in DOMAIN w :
                     w[x].kind = "func" =>
                        f.MessageType[k].Name \notin {w[x].d.Src, w[x].d.Dst}
                /\ (k = Len(outcome) /\ k < Len(f.MessageType)) =>
                      (pc = "messages" /\ i = k + 1)
        /\ (pc \in {"forward", "swap", "reverse", "oneof", "path"} \/ Succeeded)
             => Len(outcome) = Len(f.MessageType)
        /\ pc = "done" => ret.err # "loggable"
        /\ Succeeded =>
             /\ ret.path # <<>>
             /\ ret.content # <<>>
             /\ \A k \in DOMAIN outcome :
                  outcome[k].err = "loggable" =>
                     \E x \in DOMAIN ret.content :
                        ret.content[x].kind = "comment" /\ ret.content[x].msg = k

\* C5 witness: the first message failed with a loggable error, the second
\* was rendered, and the run succeeded.
C5_Witness ==
    /\ Succeeded
    /\ Len(outcome) = 2
    /\ outcome[1].err = "loggable"
    /\ f.MessageType[1].GoStruct # Nil
    /\ outcome[2].err = Nil
    /\ Len(data) = 1
    /\ FuncPos(1, 2) # {}

\* C6: without the models-file-path option ProcessFile returns ErrFileSkipped
\* with an empty path and content, before anything is parsed or written.
C6_FileSkipped ==
    f.Options.GoModelsFilePath = Nil =>
        /\ pc \in {"start", "done"}
        /\ w = <<>> /\ data = <<>> /\ outcome = <<>>
        /\ pc = "done" =>
             ret = [path |-> <<>>, content |-> <<>>, err |-> "ErrFileSkipped"]

\* C6 witness: a file with two messages and no models path was skipped.
C6_Witness ==
    /\ pc = "done"
    /\ f.Options.GoModelsFilePath = Nil
    /\ Len(f.MessageType) = 2
    /\ ret.err = "ErrFileSkipped"

\* Field mapping new is orig as the claim has it under the alias P.
QualifiedOnce(orig, new, P) ==
    /\ new.Name = orig.Name
    /\ new.UsePackage = orig.UsePackage
    /\ IF P # "" /\ orig.UsePackage
       THEN /\ Len(new.ProtoToGoType) = Len(orig.ProtoToGoType) + 2
            /\ new.ProtoToGoType[1] = P /\ new.ProtoToGoType[2] = "."
            /\ SubSeq(new.ProtoToGoType, 3, Len(new.ProtoToGoType)) = orig.ProtoToGoType
            /\ Len(new.GoToProtoType) = Len(orig.GoToProtoType) + 2
            /\ new.GoToProtoType[1] = P /\ new.GoToProtoType[2] = "."
            /\ SubSeq(new.GoToProtoType, 3, Len(new.GoToProtoType)) = orig.GoToProtoType
       ELSE /\ new.ProtoToGoType = orig.ProtoToGoType
            /\ new.GoToProtoType = orig.GoToProtoType

SameMappings(origs, news, P) ==
    /\ Len(news) = Len(origs)
    /\ \A k \in DOMAIN origs : QualifiedOnce(origs[k], news[k], P)

\* C7: both conversion expressions of a marked field are the original ones
\* with "P." prepended once when the alias P is not empty, and unchanged
\* otherwise, in the record and in both renders; number and order of the
\* field mappings stay.
C7_QualifiedExactlyOnce ==
    LET ok == OkMsgs(Len(outcome))
    IN  /\ \A r \in DOMAIN data :
             SameMappings(outcome[ok[r]].fields, data[r].Fields, args.helperPackageName)
        /\ \A x \in DOMAIN w :
             w[x].kind = "func" =>
                SameMappings(outcome[ok[w[x].rec]].fields, w[x].d.Fields,
                             args.helperPackageName)

\* C7 witness: under the alias "helperpkg" a record with a marked and an
\* unmarked field was rendered forward and reverse.
C7_Witness ==
    /\ Succeeded
    /\ args.helperPackageName = "helperpkg"
    /\ \E r \in DOMAIN data :
         /\ Len(data[r].Fields) = 2
         /\ data[r].Fields[1].UsePackage
         /\ ~data[r].Fields[2].UsePackage
         /\ data[r].Fields[1].ProtoToGoType = <<"helperpkg", ".", "To", "ID">>
         /\ FuncPos(r, 1) # {} /\ FuncPos(r, 2) # {}

\* C8: on success the path is the input file's path with ".proto" replaced
\* by "_transformer.go", in the input file's directory, or in the
\* sub-directory named after the destination package when usePackageInPath
\* is set, and has no other elements.
C8_PathBesideTheSchemaFile ==
    Succeeded =>
        ret.path =
            SubSeq(f.Name, 1, Len(f.Name) - 1)
            \o (IF args.usePackageInPath THEN <<args.packageName>> ELSE <<>>)
            \o <<[x \in DOMAIN f.Name[Len(f.Name)] |->
                    IF f.Name[Len(f.Name)][x] = ".proto" THEN "_transformer.go"
                    ELSE f.Name[Len(f.Name)][x]]>>

Rank(kind) ==
    CASE kind = "header" -> 0
      [] kind = "debug" -> 1
      [] kind = "comment" -> 1
      [] kind = "func" -> 2
      [] kind = "oneof" -> 3

\* C10: the output is ordered: the header, the comments of skipped messages,
\* the forward/reverse pair of each message in declaration order, and the
\* union logic only after the reverse function of the last message; the
\* union pass is not run when rendering failed.
C10_OutputOrder ==
    LET ok == OkMsgs(Len(outcome))
    IN  /\ w # <<>> => w[1].kind = "header"
        /\ \A y \in DOMAIN w : \A x \in 1..y - 1 :
             /\ Rank(w[x].kind) <= Rank(w[y].kind)
             /\ w[y].kind # "header"
             /\ (w[x].kind = "comment" /\ w[y].kind = "comment") => w[x].msg < w[y].msg
             /\ (w[x].kind = "func" /\ w[y].kind = "func") =>
                   \/ ok[w[x].rec] < ok[w[y].rec]
                   \/ w[x].rec = w[y].rec /\ w[x].pass = 1 /\ w[y].pass = 2
        /\ \A r \in DOMAIN data : r > 1 => ok[r - 1] < ok[r]
        /\ (\E z \in DOMAIN w : w[z].kind = "oneof") =>
             \A r \in DOMAIN data :
                \E y \in DOMAIN w :
                   /\ w[y].kind = "func" /\ w[y].rec = r /\ w[y].pass = 2 /\ w[y].complete
                   /\ w[y - 1].kind = "func" /\ w[y - 1].rec = r /\ w[y - 1].pass = 1
        /\ (pc = "done" /\ ret.err \in {"TemplateError", "ExecuteError"}) =>
             \A z \in DOMAIN w : w[z].kind # "oneof"
        /\ Succeeded => ret.content = w

\* C10 witness: a successful run that wrote the header, the debug dump, the
\* comment of a skipped message, a function pair and union logic after it.
C10_Witness ==
    /\ Succeeded
    /\ Len(w) = 6
    /\ w[2].kind = "debug"
    /\ w[3].kind = "comment"
    /\ w[4].kind = "func" /\ w[4].pass = 1
    /\ w[5].kind = "func" /\ w[5].pass = 2
    /\ w[6].kind = "oneof"

====
